---- MODULE Spec2Model ----
(***************************************************************************)
(* A model of the survey report generator of main.go: TxtToJSON turns the  *)
(* line-oriented KEY=VALUE survey text into a stream of JSON objects, the  *)
(* loop of main decodes that stream into Surveys with a json.Decoder, and  *)
(* NewReport aggregates the Surveys into the Report that main prints.      *)
(*                                                                         *)
(* Text is modelled character by character: a string is a sequence of      *)
(* one-character strings, so that formatting, splitting, trimming and JSON *)
(* decoding are computed as the code computes them.                        *)
(***************************************************************************)
EXTENDS Integers, Sequences, FiniteSets, TLC

VARIABLES input, pc, lineNo, scanErr, buf, err, surveyBytes, dec, surveys,
          diag, tally, out

vars ==
    <<input, pc, lineNo, scanErr, buf, err, surveyBytes, dec, surveys, diag,
      tally, out>>

-----------------------------------------------------------------------------
(* Characters and the string helpers of package strings / bytes.           *)

UpperLetters ==
    <<"A", "B", "C", "D", "E", "F", "G", "H", "I", "J", "K", "L", "M",
      "N", "O", "P", "Q", "R", "S", "T", "U", "V", "W", "X", "Y", "Z">>

LowerLetters ==
    <<"a", "b", "c", "d", "e", "f", "g", "h", "i", "j", "k", "l", "m",
      "n", "o", "p", "q", "r", "s", "t", "u", "v", "w", "x", "y", "z">>

Digits == <<"0", "1", "2", "3", "4", "5", "6", "7", "8", "9">>

IsDigit(c) == \E i \in 1..Len(Digits) : Digits[i] = c

DigitVal(c) == (CHOOSE i \in 1..Len(Digits) : Digits[i] = c) - 1

\* ASCII case folding, as the field lookup of encoding/json applies it.
ToLower(c) ==
    IF \E i \in 1..Len(UpperLetters) : UpperLetters[i] = c
    THEN LowerLetters[CHOOSE i \in 1..Len(UpperLetters) : UpperLetters[i] = c]
    ELSE c

Fold(s) == [i \in 1..Len(s) |-> ToLower(s[i])]

\* s[i..] and s[..i-1]
From(s, i) == SubSeq(s, i, Len(s))
Upto(s, i) == SubSeq(s, 1, i - 1)

HasPrefixAt(s, sub, i) ==
    /\ i + Len(sub) - 1 <= Len(s)
    /\ \A k \in 1..Len(sub) : s[i + k - 1] = sub[k]

\* strings.Index, 1-based; 0 when sub does not occur in s.
Index(s, sub) ==
    IF \E i \in 1..(Len(s) + 1) : HasPrefixAt(s, sub, i)
    THEN CHOOSE i \in 1..(Len(s) + 1) :
            /\ HasPrefixAt(s, sub, i)
            /\ \A j \in 1..(i - 1) : ~HasPrefixAt(s, sub, j)
    ELSE 0

\* strings.Contains
Contains(s, sub) == Index(s, sub) # 0

\* strings.Split(s, sep) for a non-empty sep: every piece between separators.
RECURSIVE Split(_, _)
Split(s, sep) ==
    LET i == Index(s, sep)
    IN  IF i = 0 THEN <<s>>
        ELSE <<Upto(s, i)>> \o Split(From(s, i + Len(sep)), sep)

\* strings.Replace(s, old, new, n) for a non-empty old; n < 0 replaces all.
RECURSIVE Replace(_, _, _, _)
Replace(s, old, new, n) ==
    LET i == Index(s, old)
    IN  IF n = 0 \/ i = 0 THEN s
        ELSE Upto(s, i) \o new
             \o Replace(From(s, i + Len(old)), old, new, IF n < 0 THEN n ELSE n - 1)

\* bytes.TrimRight(s, cutset): drop every trailing character found in cutset.
RECURSIVE TrimRight(_, _)
TrimRight(s, cutset) ==
    IF Len(s) > 0 /\ (\E k \in 1..Len(cutset) : cutset[k] = s[Len(s)])
    THEN TrimRight(Upto(s, Len(s)), cutset)
    ELSE s

-----------------------------------------------------------------------------
(* The Survey struct (main.go:48-123).                                     *)

StringFields ==
    {"Country", "Course", "CourseVer", "Email", "FoundVer", "Instructor",
     "Language", "Modality", "Name", "Progress", "Q1508", "Q508", "Q318",
     "Q1901", "Q1907", "Q403", "Q109", "Q105", "Q111", "Q112", "Q113",
     "Q101", "Q1101", "Q1201", "Q1801", "Q1401", "Q1701", "StartDate",
     "Subscript", "SurveyDate", "SurveyVer"}

\* the fields tagged `json:",string"`
IntFields ==
    {"Q207", "Q208", "Q209", "Q210", "Q306", "Q307", "Q308", "Q320",
     "Q310", "Q1002", "Q1003", "Q1004", "Q1005", "Q311", "Q410"}

Fields == StringFields \cup IntFields

\* The JSON name of every field: its json tag when it has one, else its Go
\* name.
JsonNames ==
    [ Country |-> <<"C", "o", "u", "n", "t", "r", "y">>,
      Course |-> <<"C", "o", "u", "r", "s", "e">>,
      CourseVer |-> <<"c", "o", "u", "r", "s", "e", "_", "v", "e", "r">>,
      Email |-> <<"E", "m", "a", "i", "l">>,
      FoundVer |-> <<"f", "o", "u", "n", "d", "_", "v", "e", "r">>,
      Instructor |-> <<"I", "n", "s", "t", "r", "u", "c", "t", "o", "r">>,
      Language |-> <<"L", "a", "n", "g", "u", "a", "g", "e">>,
      Modality |-> <<"M", "o", "d", "a", "l", "i", "t", "y">>,
      Name |-> <<"N", "a", "m", "e">>,
      Progress |-> <<"P", "r", "o", "g", "r", "e", "s", "s">>,
      Q1508 |-> <<"Q", "1", "5", "0", "8">>,
      Q508 |-> <<"Q", "5", "0", "8">>,
      Q318 |-> <<"Q", "3", "1", "8">>,
      Q1901 |-> <<"Q", "1", "9", "0", "1">>,
      Q1907 |-> <<"Q", "1", "9", "0", "7">>,
      Q403 |-> <<"Q", "4", "0", "3">>,
      Q109 |-> <<"Q", "1", "0", "9">>,
      Q105 |-> <<"Q", "1", "0", "5">>,
      Q111 |-> <<"Q", "1", "1", "1">>,
      Q112 |-> <<"Q", "1", "1", "2">>,
      Q113 |-> <<"Q", "1", "1", "3">>,
      Q101 |-> <<"Q", "1", "0", "1">>,
      Q1101 |-> <<"Q", "1", "1", "0", "1">>,
      Q1201 |-> <<"Q", "1", "2", "0", "1">>,
      Q1801 |-> <<"Q", "1", "8", "0", "1">>,
      Q1401 |-> <<"Q", "1", "4", "0", "1">>,
      Q1701 |-> <<"Q", "1", "7", "0", "1">>,
      StartDate |-> <<"s", "t", "a", "r", "t", "_", "d", "a", "t", "e">>,
      Subscript |-> <<"S", "u", "b", "s", "c", "r", "i", "p", "t">>,
      SurveyDate |-> <<"S", "u", "r", "v", "e", "y", "D", "a", "t", "e">>,
      SurveyVer |-> <<"s", "u", "r", "v", "e", "y", "_", "v", "e", "r">>,
      Q207 |-> <<"Q", "2", "0", "7">>,
      Q208 |-> <<"Q", "2", "0", "8">>,
      Q209 |-> <<"Q", "2", "0", "9">>,
      Q210 |-> <<"Q", "2", "1", "0">>,
      Q306 |-> <<"Q", "3", "0", "6">>,
      Q307 |-> <<"Q", "3", "0", "7">>,
      Q308 |-> <<"Q", "3", "0", "8">>,
      Q320 |-> <<"Q", "3", "2", "0">>,
      Q310 |-> <<"Q", "3", "1", "0">>,
      Q1002 |-> <<"Q", "1", "0", "0", "2">>,
      Q1003 |-> <<"Q", "1", "0", "0", "3">>,
      Q1004 |-> <<"Q", "1", "0", "0", "4">>,
      Q1005 |-> <<"Q", "1", "0", "0", "5">>,
      Q311 |-> <<"Q", "3", "1", "1">>,
      Q410 |-> <<"Q", "4", "1", "0">> ]

\* The zero value of Survey: what `var s Survey` declares (main.go:171).
ZeroSurvey == [f \in Fields |-> IF f \in IntFields THEN 0 ELSE <<>>]

-----------------------------------------------------------------------------
(* TxtToJSON (main.go:236-277): the text it writes.                        *)

Eq == <<"=">>
Dash == <<"-">>
SurveyVerText == <<"s", "u", "r", "v", "e", "y", "_", "v", "e", "r">>

\* "{\n", written when the buffer is created (main.go:240)
OpenObject == <<"{", "\n">>

\* "}\n{\n", written for a separator line (main.go:253)
CloseAndOpenObject == <<"}", "\n", "{", "\n">>

\* the cutset of the final bytes.TrimRight (main.go:274)
TrailingCutset == <<"{", "\n">>

\* errors.New("invalid input") (main.go:248)
InvalidInputText ==
    <<"i", "n", "v", "a", "l", "i", "d", " ", "i", "n", "p", "u", "t">>

NilError == [isNil |-> TRUE, text |-> <<>>]
NewError(text) == [isNil |-> FALSE, text |-> text]

\* the validation of main.go:247
IsValidLine(line) == Contains(line, Eq)

\* the separator test of main.go:252
IsSeparator(line) == line = Eq

\* fmt.Sprintf("  \"%s\": \"%s\",\n", k, v) (main.go:263)
FormatMember(k, v) ==
    <<" ", " ", "\"">> \o k \o <<"\"", ":", " ", "\"">> \o v
    \o <<"\"", ",", "\n">>

\* QuestionKey without main.go:262: the dashes stay in the question name.
QuestionKey_KeepsDashes(line) == Split(line, Eq)[1]

\* The question name of a data line: the first piece of the split, with the
\* dashes removed (main.go:261-262).
QuestionKey(line) == Replace(Split(line, Eq)[1], Dash, <<>>, -1)

\* The answer of a data line: the second piece of the split (main.go:261,263).
QuestionValue(line) == Split(line, Eq)[2]

\* What TxtToJSON writes for a data line (main.go:261-270).
DataLineText(line) ==
    LET text == FormatMember(QuestionKey(line), QuestionValue(line))
    IN  IF Contains(text, SurveyVerText)
        THEN Replace(text, <<",", "\n">>, <<"\n">>, 1)
        ELSE text

\* TrimmedBytes with a cutset that lacks the brace: the "{" of the record
\* opened last stays.
TrimmedBytes_NewlinesOnly(b) == TrimRight(b, <<"\n">>)

\* The bytes TxtToJSON returns with a nil error (main.go:274-276).
TrimmedBytes(b) == TrimRight(b, TrailingCutset)

-----------------------------------------------------------------------------
(* The json.Decoder that main reads the Surveys with (main.go:169-172).    *)
(* TxtToJSON writes every member as "key": "value", and the text of the    *)
(* model holds no ':', so the values the decoder meets are objects at the  *)
(* top level and strings inside them; any other value start is reported as *)
(* the syntax error it is for those.                                       *)

IsSpace(c) == c \in {" ", "\t", "\r", "\n"}

\* A character that may not appear unescaped inside a JSON string.
IsControl(c) == c \in {"\n", "\t", "\r"}

IsHex(c) == IsDigit(c) \/ ToLower(c) \in {"a", "b", "c", "d", "e", "f"}

\* The first position at or after i that holds no white space (Len(b) + 1
\* when there is none).
SkipSpace(b, i) ==
    CHOOSE j \in i..(Len(b) + 1) :
        /\ j = Len(b) + 1 \/ ~IsSpace(b[j])
        /\ \A k \in i..(j - 1) : IsSpace(b[k])

\* The character an escape \c stands for.
Unescape(c) ==
    CASE c = "b" -> "<BS>"
      [] c = "f" -> "\f"
      [] c = "n" -> "\n"
      [] c = "r" -> "\r"
      [] c = "t" -> "\t"
      [] OTHER   -> c

\* The string literal whose opening quote is at i - 1: its characters from
\* position i on, unquoted into acc.
RECURSIVE ScanString(_, _, _)
ScanString(b, i, acc) ==
    IF i > Len(b) THEN [kind |-> "eof"]
    ELSE IF b[i] = "\"" THEN [kind |-> "ok", end |-> i + 1, s |-> acc]
    ELSE IF b[i] = "\\" THEN
        IF i + 1 > Len(b) THEN [kind |-> "eof"]
        ELSE IF b[i + 1] \in {"\"", "\\", "/", "b", "f", "n", "r", "t"}
        THEN ScanString(b, i + 2, Append(acc, Unescape(b[i + 1])))
        ELSE IF b[i + 1] = "u" THEN
            IF \E k \in (i + 2)..(i + 5) : k <= Len(b) /\ ~IsHex(b[k])
            THEN [kind |-> "syntax"]
            ELSE IF i + 5 > Len(b) THEN [kind |-> "eof"]
            ELSE ScanString(b, i + 6,
                     Append(acc, "U+" \o ToLower(b[i + 2]) \o ToLower(b[i + 3])
                                 \o ToLower(b[i + 4]) \o ToLower(b[i + 5])))
        ELSE [kind |-> "syntax"]
    ELSE IF IsControl(b[i]) THEN [kind |-> "syntax"]
    ELSE ScanString(b, i + 1, Append(acc, b[i]))

\* The members of the object whose '{' is before position i; afterComma says
\* that a ',' was just read, so that a key has to follow.
RECURSIVE ScanMembers(_, _, _, _)
ScanMembers(b, i, acc, afterComma) ==
    LET j == SkipSpace(b, i)
    IN  IF j > Len(b) THEN [kind |-> "eof"]
        ELSE IF b[j] = "}" /\ ~afterComma /\ acc = <<>>
        THEN [kind |-> "ok", end |-> j + 1, members |-> acc]
        ELSE IF b[j] # "\"" THEN [kind |-> "syntax"]
        ELSE
          LET key == ScanString(b, j + 1, <<>>)
          IN  IF key.kind # "ok" THEN key
              ELSE
                LET c == SkipSpace(b, key.end)
                IN  IF c > Len(b) THEN [kind |-> "eof"]
                    ELSE IF b[c] # ":" THEN [kind |-> "syntax"]
                    ELSE
                      LET v == SkipSpace(b, c + 1)
                      IN  IF v > Len(b) THEN [kind |-> "eof"]
                          ELSE IF b[v] # "\"" THEN [kind |-> "syntax"]
                          ELSE
                            LET val == ScanString(b, v + 1, <<>>)
                            IN  IF val.kind # "ok" THEN val
                                ELSE
                                  LET e == SkipSpace(b, val.end)
                                      ms == Append(acc, [key |-> key.s, val |-> val.s])
                                  IN  IF e > Len(b) THEN [kind |-> "eof"]
                                      ELSE IF b[e] = ","
                                      THEN ScanMembers(b, e + 1, ms, TRUE)
                                      ELSE IF b[e] = "}"
                                      THEN [kind |-> "ok", end |-> e + 1, members |-> ms]
                                      ELSE [kind |-> "syntax"]

\* Decoder.readValue: the next whole value at or after position i.
ReadValue(b, i) ==
    LET j == SkipSpace(b, i)
    IN  IF j > Len(b) THEN [kind |-> "eof"]
        ELSE IF b[j] = "{" THEN ScanMembers(b, j + 1, <<>>, FALSE)
        ELSE [kind |-> "syntax"]

\* The field a JSON key names: the field with exactly that name, else the
\* field whose name equals it when case is ignored, else none.
HasField(key) == \E f \in Fields : Fold(JsonNames[f]) = Fold(key)

FieldFor(key) ==
    IF \E f \in Fields : JsonNames[f] = key
    THEN CHOOSE f \in Fields : JsonNames[f] = key
    ELSE CHOOSE f \in Fields : Fold(JsonNames[f]) = Fold(key)

\* strconv.ParseInt(s, 10, 64): an optional sign and one or more digits.
\* (The numbers of the model are far from the 64-bit range.)
RECURSIVE DigitsValue(_)
DigitsValue(s) ==
    IF s = <<>> THEN 0
    ELSE 10 * DigitsValue(Upto(s, Len(s))) + DigitVal(s[Len(s)])

ParseInt(s) ==
    LET signed == Len(s) > 0 /\ s[1] \in {"+", "-"}
        ds     == IF signed THEN From(s, 2) ELSE s
    IN  IF Len(ds) = 0 \/ \E k \in 1..Len(ds) : ~IsDigit(ds[k])
        THEN [ok |-> FALSE, n |-> 0]
        ELSE [ok |-> TRUE,
              n  |-> IF signed /\ s[1] = "-" THEN 0 - DigitsValue(ds)
                     ELSE DigitsValue(ds)]

NullText == <<"n", "u", "l", "l">>

\* Storing the text of a JSON string into a field tagged ",string" (the
\* decoder's literalStore with fromQuoted): the new field value, the error to
\* save if any, and whether the error ends the decoding of the object.
StoreQuotedInt(old, item) ==
    IF Len(item) = 0
    THEN [n |-> old, error |-> "stringTag", abort |-> FALSE]
    ELSE IF item[1] = "n"
    THEN [n |-> old,
          error |-> IF item = NullText THEN "nil" ELSE "stringTag",
          abort |-> FALSE]
    ELSE IF item[1] \in {"t", "f"}
    THEN [n |-> old, error |-> "stringTag", abort |-> FALSE]
    ELSE IF item[1] = "\""
    THEN LET q == ScanString(item, 2, <<>>)
         IN  IF q.kind = "ok" /\ q.end = Len(item) + 1
             THEN [n |-> old, error |-> "unmarshalType", abort |-> FALSE]
             ELSE [n |-> old, error |-> "stringTag", abort |-> TRUE]
    ELSE IF item[1] # "-" /\ ~IsDigit(item[1])
    THEN [n |-> old, error |-> "stringTag", abort |-> TRUE]
    ELSE LET p == ParseInt(item)
         IN  IF p.ok THEN [n |-> p.n, error |-> "nil", abort |-> FALSE]
             ELSE [n |-> old, error |-> "unmarshalType", abort |-> FALSE]

\* Unmarshalling the members of an object into s, in their order: the last
\* value of a repeated key wins, unknown keys are skipped, the first error is
\* the one saved, and an aborting error leaves the later members unread.
RECURSIVE UnmarshalMembers(_, _, _, _)
UnmarshalMembers(members, k, s, saved) ==
    IF k > Len(members) THEN [s |-> s, error |-> saved]
    ELSE
      LET m == members[k]
      IN  IF ~HasField(m.key) THEN UnmarshalMembers(members, k + 1, s, saved)
          ELSE
            LET f == FieldFor(m.key)
            IN  IF f \in StringFields
                THEN UnmarshalMembers(members, k + 1, [s EXCEPT ![f] = m.val], saved)
                ELSE
                  LET r == StoreQuotedInt(s[f], m.val)
                      e == IF saved = "nil" THEN r.error ELSE saved
                  IN  IF r.abort THEN [s |-> [s EXCEPT ![f] = r.n], error |-> r.error]
                      ELSE UnmarshalMembers(members, k + 1,
                                            [s EXCEPT ![f] = r.n], e)

\* Decoder.More (main.go:170): is there another value to read?
More(b, d) ==
    LET j == SkipSpace(b, d.scanp)
    IN  j <= Len(b) /\ b[j] \notin {"]", "}"}

\* Decoder.Decode(&s) on a fresh Survey (main.go:171-172), called after More
\* has moved to the next character that is no white space: the decoder after
\* the call, the Survey and the error returned.  A syntax error or an
\* unexpected end of the input is kept in the decoder, which then returns it
\* from every later call without moving on.
Decode(b, d) ==
    IF d.error # "nil"
    THEN [dec |-> d, s |-> ZeroSurvey, error |-> d.error]
    ELSE
      LET i == SkipSpace(b, d.scanp)
          v == ReadValue(b, i)
      IN  IF v.kind = "ok"
          THEN LET u == UnmarshalMembers(v.members, 1, ZeroSurvey, "nil")
               IN  [dec |-> [scanp |-> v.end, error |-> "nil"],
                    s |-> u.s, error |-> u.error]
          ELSE LET e == IF v.kind = "eof" THEN "unexpectedEOF" ELSE "syntax"
               IN  [dec |-> [scanp |-> i, error |-> e],
                    s |-> ZeroSurvey, error |-> e]

-----------------------------------------------------------------------------
(* float64 arithmetic.  A value is a pair <<n, d>> with d >= 0 in lowest    *)
(* terms: the number n/d when d > 0, +Inf or -Inf for <<1, 0>> and          *)
(* <<-1, 0>>, and NaN for <<0, 0>>, so that division by zero gives what the *)
(* hardware gives.  The rounding of float64 is not modelled: a quotient is  *)
(* the exact fraction.                                                      *)

Abs(i) == IF i < 0 THEN 0 - i ELSE i

Sign(i) == IF i < 0 THEN 0 - 1 ELSE IF i > 0 THEN 1 ELSE 0

RECURSIVE Gcd(_, _)
Gcd(a, b) == IF b = 0 THEN a ELSE Gcd(b, a % b)

Float(n, d) ==
    LET s == IF d < 0 THEN 0 - 1 ELSE 1
        g == Gcd(Abs(n), Abs(d))
    IN  IF d = 0 THEN <<Sign(n), 0>>
        ELSE <<(s * n) \div g, (s * d) \div g>>

\* float64(i)
FloatOf(i) == <<i, 1>>

FAdd(x, y) == Float(x[1] * y[2] + y[1] * x[2], x[2] * y[2])
FMul(x, y) == Float(x[1] * y[1], x[2] * y[2])
FDiv(x, y) == Float(x[1] * y[2], x[2] * y[1])

NaN == <<0, 0>>
IsNaN(x) == x = NaN
IsInf(x) == x[2] = 0 /\ x[1] # 0

-----------------------------------------------------------------------------
(* NPS and NewReport (main.go:27-29, 183-219).                             *)

\* NPS with the passives left out of the denominator.
NPS_IgnoresPassives(promoters, passives, detractors) ==
    FMul(FDiv(FloatOf(promoters - detractors),
              FloatOf(promoters + detractors)),
         FloatOf(100))

\* main.go:28
NPS(promoters, passives, detractors) ==
    FMul(FDiv(FloatOf(promoters - detractors),
              FloatOf(promoters + passives + detractors)),
         FloatOf(100))

\* The accumulators before the loop (main.go:184-188).
ZeroTally ==
    [curriculumAvgsSum |-> FloatOf(0), instructorAvgsSum |-> FloatOf(0),
     environmentAvgsSum |-> FloatOf(0), overallAvgsSum |-> FloatOf(0),
     promoters |-> 0, passives |-> 0, detractors |-> 0]

\* Bucket with `>` in place of `>=` in the first case: a 9 is a passive.
Bucket_PromoterAbove9(r) ==
    IF r > 9 THEN "promoter"
    ELSE IF r >= 7 THEN "passive"
    ELSE IF r >= 0 THEN "detractor"
    ELSE "none"

\* Bucket with the passive threshold one too high: a 7 falls to the detractors.
Bucket_PassiveFrom8(r) ==
    IF r >= 9 THEN "promoter"
    ELSE IF r >= 8 THEN "passive"
    ELSE IF r >= 0 THEN "detractor"
    ELSE "none"

\* Bucket with a default case in place of `case s.Q410 >= 0`: a negative score
\* is a detractor.
Bucket_NegativeIsDetractor(r) ==
    IF r >= 9 THEN "promoter"
    ELSE IF r >= 7 THEN "passive"
    ELSE "detractor"

\* The switch that tallies the NPS variables (main.go:197-204).
Bucket(r) ==
    IF r >= 9 THEN "promoter"
    ELSE IF r >= 7 THEN "passive"
    ELSE IF r >= 0 THEN "detractor"
    ELSE "none"

\* TallySurvey with Q310 where the code reads Q320.
TallySurvey_UsesQ310(t, s) ==
    [curriculumAvgsSum |->
        FAdd(t.curriculumAvgsSum,
             FDiv(FloatOf(s.Q207 + s.Q208 + s.Q209 + s.Q210), FloatOf(4))),
     instructorAvgsSum |->
        FAdd(t.instructorAvgsSum,
             FDiv(FloatOf(s.Q306 + s.Q307 + s.Q308 + s.Q310), FloatOf(4))),
     environmentAvgsSum |->
        FAdd(t.environmentAvgsSum,
             FDiv(FloatOf(s.Q1002 + s.Q1003 + s.Q1004 + s.Q1005), FloatOf(4))),
     overallAvgsSum |-> FAdd(t.overallAvgsSum, FloatOf(s.Q311)),
     promoters  |-> t.promoters + (IF Bucket(s.Q410) = "promoter" THEN 1 ELSE 0),
     passives   |-> t.passives + (IF Bucket(s.Q410) = "passive" THEN 1 ELSE 0),
     detractors |-> t.detractors + (IF Bucket(s.Q410) = "detractor" THEN 1 ELSE 0)]

\* One iteration of the loop over the surveys (main.go:190-205).
TallySurvey(t, s) ==
    [curriculumAvgsSum |->
        FAdd(t.curriculumAvgsSum,
             FDiv(FloatOf(s.Q207 + s.Q208 + s.Q209 + s.Q210), FloatOf(4))),
     instructorAvgsSum |->
        FAdd(t.instructorAvgsSum,
             FDiv(FloatOf(s.Q306 + s.Q307 + s.Q308 + s.Q320), FloatOf(4))),
     environmentAvgsSum |->
        FAdd(t.environmentAvgsSum,
             FDiv(FloatOf(s.Q1002 + s.Q1003 + s.Q1004 + s.Q1005), FloatOf(4))),
     overallAvgsSum |-> FAdd(t.overallAvgsSum, FloatOf(s.Q311)),
     promoters  |-> t.promoters + (IF Bucket(s.Q410) = "promoter" THEN 1 ELSE 0),
     passives   |-> t.passives + (IF Bucket(s.Q410) = "passive" THEN 1 ELSE 0),
     detractors |-> t.detractors + (IF Bucket(s.Q410) = "detractor" THEN 1 ELSE 0)]

RECURSIVE Tally(_, _)
Tally(ss, k) ==
    IF k = 0 THEN ZeroTally ELSE TallySurvey(Tally(ss, k - 1), ss[k])

\* main.go:210-218.  The four comment maps of Report are never set and are
\* left out.
NewReport(ss) ==
    LET t == Tally(ss, Len(ss))
        n == FloatOf(Len(ss))
    IN  [Responses      |-> Len(ss),
         NPS            |-> NPS(t.promoters, t.passives, t.detractors),
         CurriculumAvg  |-> FDiv(t.curriculumAvgsSum, n),
         InstructorAvg  |-> FDiv(t.instructorAvgsSum, n),
         EnvironmentAvg |-> FDiv(t.environmentAvgsSum, n),
         OverallAvg     |-> FDiv(t.overallAvgsSum, n)]

-----------------------------------------------------------------------------
(* TxtToJSON and the decode loop of main as functions of their input.      *)

\* The scanner loop of TxtToJSON after k lines, with buffer b
\* (main.go:243-276): the bytes returned, the error, and the lines read.
RECURSIVE ScanLines(_, _, _)
ScanLines(lines, k, b) ==
    IF k = Len(lines)
    THEN [bytes |-> TrimmedBytes(b), error |-> NilError, read |-> k]
    ELSE IF ~IsValidLine(lines[k + 1])
    THEN [bytes |-> b, error |-> NewError(InvalidInputText), read |-> k + 1]
    ELSE IF IsSeparator(lines[k + 1])
    THEN ScanLines(lines, k + 1, b \o CloseAndOpenObject)
    ELSE ScanLines(lines, k + 1, b \o DataLineText(lines[k + 1]))

TxtToJSON(lines) == ScanLines(lines, 0, OpenObject)

-----------------------------------------------------------------------------
(* The inputs of the model: the lines bufio.Scanner hands to TxtToJSON.    *)

\* Name=a
NameLine == <<"N", "a", "m", "e", "=", "a">>

\* survey_ver=1
SurveyVerLine == <<"s", "u", "r", "v", "e", "y", "_", "v", "e", "r", "=", "1">>

\* =
SeparatorLine == <<"=">>

\* (an empty line)
EmptyLine == <<>>

\* Q4109
NoDelimiterLine == <<"Q", "4", "1", "0", "9">>

\* Q2-07=4
DashKeyLine == <<"Q", "2", "-", "0", "7", "=", "4">>

\* Q208=N/A
NonNumericLine == <<"Q", "2", "0", "8", "=", "N", "/", "A">>

\* Q209=5x
BadDigitsLine == <<"Q", "2", "0", "9", "=", "5", "x">>

\* Q403=a=b
ExtraEqLine == <<"Q", "4", "0", "3", "=", "a", "=", "b">>

\* Q403=a"b
QuoteLine == <<"Q", "4", "0", "3", "=", "a", "\"", "b">>

\* Q403=a\b
BackslashLine == <<"Q", "4", "0", "3", "=", "a", "\\", "b">>

\* Q508=a-b
DashValueLine == <<"Q", "5", "0", "8", "=", "a", "-", "b">>

\* Q410=-1
NegativeLine == <<"Q", "4", "1", "0", "=", "-", "1">>

\* Q410=9
PromoterLine == <<"Q", "4", "1", "0", "=", "9">>

\* -=
DashOnlyKeyLine == <<"-", "=">>

Lines ==
    {NameLine, SurveyVerLine, SeparatorLine, EmptyLine, NoDelimiterLine,
     DashKeyLine, NonNumericLine, BadDigitsLine, ExtraEqLine, QuoteLine,
     BackslashLine, DashValueLine, NegativeLine, PromoterLine, DashOnlyKeyLine}

\* An input is built from blocks: any single line, or one of a few records.
Blocks ==
    {<<l>> : l \in Lines}
    \cup {<<SurveyVerLine, SeparatorLine>>,
          <<NameLine, SurveyVerLine>>,
          <<NameLine, SeparatorLine>>,
          <<NameLine, SurveyVerLine, SeparatorLine>>,
          <<NameLine, EmptyLine, SurveyVerLine, SeparatorLine>>,
          <<NonNumericLine, NameLine, SurveyVerLine, SeparatorLine>>,
          <<BadDigitsLine, NameLine, SurveyVerLine, SeparatorLine>>}

\* the number of blocks of an input
MaxBlocks == 2

\* the number of Surveys after which the model stops following the loop of main
MaxSurveys == 5

RECURSIVE Flatten(_)
Flatten(bs) == IF bs = <<>> THEN <<>> ELSE Head(bs) \o Flatten(Tail(bs))

\* the line KEY=VALUE of a one-digit answer to the question of field f
AnswerLine(f, digit) == JsonNames[f] \o Eq \o <<digit>>

\* A complete record: the thirteen averaged answers and the recommendation
\* score, then survey_ver and the separator.
ScenarioRecord ==
    <<AnswerLine("Q207", "4"), AnswerLine("Q208", "4"),
      AnswerLine("Q209", "4"), AnswerLine("Q210", "3"),
      AnswerLine("Q306", "4"), AnswerLine("Q307", "4"),
      AnswerLine("Q308", "4"), AnswerLine("Q320", "5"),
      AnswerLine("Q1002", "0"), AnswerLine("Q1003", "0"),
      AnswerLine("Q1004", "0"), AnswerLine("Q1005", "0"),
      AnswerLine("Q311", "4"), AnswerLine("Q410", "9"),
      SurveyVerLine, SeparatorLine>>

\* a file of five such records
ScenarioInput ==
    ScenarioRecord \o ScenarioRecord \o ScenarioRecord \o ScenarioRecord
        \o ScenarioRecord

Inputs ==
    {Flatten(bs) : bs \in UNION {[1..n -> Blocks] : n \in 0..MaxBlocks}}
        \cup {ScenarioInput}

-----------------------------------------------------------------------------
(* The program: main reads the input through TxtToJSON (main.go:162), one  *)
(* line per step, then decodes the Surveys (main.go:168-177), one per step, *)
(* and prints the Report (main.go:179).                                     *)

NewDecoder == [scanp |-> 1, error |-> "nil"]

\* The decode loop of main on the bytes b (main.go:168-177), followed for
\* at most MaxSurveys Surveys: the Surveys appended, and whether dec.More()
\* became false.
RECURSIVE DecodeLoop(_, _, _)
DecodeLoop(b, d, ss) ==
    IF ~More(b, d) THEN [surveys |-> ss, finished |-> TRUE]
    ELSE IF Len(ss) >= MaxSurveys THEN [surveys |-> ss, finished |-> FALSE]
    ELSE LET r == Decode(b, d)
         IN  DecodeLoop(b, r.dec, Append(ss, r.s))

Init ==
    /\ input \in Inputs
    /\ pc = "scan"
    /\ lineNo = 0
    /\ scanErr = "nil"
    /\ buf = OpenObject
    /\ err = NilError
    /\ surveyBytes = <<>>
    /\ dec = NewDecoder
    /\ surveys = <<>>
    /\ diag = <<>>
    /\ tally = ZeroTally
    /\ out = <<>>

\* ScanInvalid with a `continue` in place of the `return`: the error is noted
\* and the scanner goes on to the next line.
ScanInvalid_KeepsScanning ==
    /\ pc = "scan"
    /\ lineNo < Len(input)
    /\ ~IsValidLine(input[lineNo + 1])
    /\ lineNo' = lineNo + 1
    /\ err' = NewError(InvalidInputText)
    /\ UNCHANGED <<input, pc, buf, surveyBytes, dec, surveys,
                   diag, out, scanErr, tally>>

\* scanner.Scan() returns a line without "=": TxtToJSON returns the error
\* and main ends in log.Fatalf (main.go:247-249, 163-165).
ScanInvalid ==
    /\ pc = "scan"
    /\ lineNo < Len(input)
    /\ ~IsValidLine(input[lineNo + 1])
    /\ lineNo' = lineNo + 1
    /\ err' = NewError(InvalidInputText)
    /\ surveyBytes' = buf
    /\ pc' = "fatal"
    /\ UNCHANGED <<input, buf, dec, surveys, diag, out, scanErr, tally>>

\* scanner.Scan() returns a separator line (main.go:252-255).
ScanSeparator ==
    /\ pc = "scan"
    /\ lineNo < Len(input)
    /\ IsValidLine(input[lineNo + 1])
    /\ IsSeparator(input[lineNo + 1])
    /\ lineNo' = lineNo + 1
    /\ buf' = buf \o CloseAndOpenObject
    /\ UNCHANGED <<input, pc, err, surveyBytes, dec, surveys,
                   diag, out, scanErr, tally>>

\* scanner.Scan() returns a data line (main.go:257-270).
ScanData ==
    /\ pc = "scan"
    /\ lineNo < Len(input)
    /\ IsValidLine(input[lineNo + 1])
    /\ ~IsSeparator(input[lineNo + 1])
    /\ lineNo' = lineNo + 1
    /\ buf' = buf \o DataLineText(input[lineNo + 1])
    /\ UNCHANGED <<input, pc, err, surveyBytes, dec, surveys,
                   diag, out, scanErr, tally>>

\* scanner.Scan() returns false at the end of the input: TxtToJSON returns
\* the trimmed bytes and main creates the decoder (main.go:273-276, 162-169).
ScanEnd ==
    /\ pc = "scan"
    /\ lineNo = Len(input)
    /\ surveyBytes' = TrimmedBytes(buf)
    /\ dec' = NewDecoder
    /\ pc' = "loop"
    /\ UNCHANGED <<input, lineNo, buf, err, surveys,
                   diag, out, scanErr, tally>>

\* One iteration of the decode loop (main.go:170-177).
DecodeSurvey ==
    /\ pc = "loop"
    /\ More(surveyBytes, dec)
    /\ Len(surveys) < MaxSurveys
    /\ LET r == Decode(surveyBytes, dec)
       IN  /\ dec' = r.dec
           /\ surveys' = Append(surveys, r.s)
           /\ diag' = IF r.error = "nil" THEN diag ELSE Append(diag, r.error)
    /\ UNCHANGED <<input, pc, lineNo, buf, err,
                   surveyBytes, out, scanErr, tally>>

\* dec.More() is false: main prints the Report (main.go:170, 179); tally is
\* what the accumulators of NewReport hold when it returns.
PrintReport ==
    /\ pc = "loop"
    /\ ~More(surveyBytes, dec)
    /\ tally' = Tally(surveys, Len(surveys))
    /\ out' = Append(out, NewReport(surveys))
    /\ pc' = "done"
    /\ UNCHANGED <<input, lineNo, scanErr, buf, err, surveyBytes, dec, surveys,
                   diag>>

Next ==
    \/ ScanInvalid
    \/ ScanSeparator
    \/ ScanData
    \/ ScanEnd
    \/ DecodeSurvey
    \/ PrintReport

Spec == Init /\ [][Next]_vars

TypeOK ==
    /\ pc \in {"scan", "loop", "done", "fatal"}
    /\ lineNo \in 0..Len(input)
    /\ Len(surveys) <= MaxSurveys
    /\ Len(out) <= 1

-----------------------------------------------------------------------------
(* The scanner on a reader that can fail. scanner.Scan() returns false at   *)
(* the end of the input and also at the first error: a failed Read, or a    *)
(* line longer than the token limit of bufio.Scanner (bufio.ErrTooLong).    *)
(* The loop of TxtToJSON ends either way and scanner.Err() is never called  *)
(* (main.go:243-276).                                                       *)

ScanErrors == {"read", "tooLong"}

\* scanner.Scan() returns false before line lineNo + 1 was delivered:
\* TxtToJSON leaves the loop and returns the trimmed bytes with a nil error
\* (main.go:243, 273-276), and main creates the decoder (main.go:162-169).
ScanFail ==
    /\ pc = "scan"
    /\ lineNo < Len(input)
    /\ scanErr' \in ScanErrors
    /\ surveyBytes' = TrimmedBytes(buf)
    /\ dec' = NewDecoder
    /\ pc' = "loop"
    /\ UNCHANGED <<input, lineNo, buf, err, surveys, diag, out, tally>>

NextIO ==
    \/ ScanInvalid
    \/ ScanSeparator
    \/ ScanData
    \/ ScanEnd
    \/ ScanFail
    \/ DecodeSurvey
    \/ PrintReport

SpecIO == Init /\ [][NextIO]_vars

-----------------------------------------------------------------------------
(* NewReport on Surveys given directly: main has decoded the Surveys and   *)
(* calls NewReport(surveys) (main.go:179).                                  *)

\* A Survey with the rated fields set: the four curriculum, the four averaged
\* instructor and the four environment answers, Q310, Q311 and Q410.
RatedSurvey(cur, ins, q310, env, q311, q410, name) ==
    [ZeroSurvey EXCEPT
        !.Q207 = cur[1], !.Q208 = cur[2], !.Q209 = cur[3], !.Q210 = cur[4],
        !.Q306 = ins[1], !.Q307 = ins[2], !.Q308 = ins[3], !.Q320 = ins[4],
        !.Q310 = q310,
        !.Q1002 = env[1], !.Q1003 = env[2], !.Q1004 = env[3], !.Q1005 = env[4],
        !.Q311 = q311, !.Q410 = q410, !.Name = name]

\* the record of the end-to-end scenario
ScenarioSurvey ==
    RatedSurvey(<<4, 4, 4, 3>>, <<4, 4, 4, 5>>, 0, <<0, 0, 0, 0>>, 4, 9, <<>>)

\* One Survey for each side of each threshold of the NPS switch, with
\* different answers, and the Survey of a record without any known key.
SampleSurveys ==
    {ScenarioSurvey,
     RatedSurvey(<<4, 4, 4, 3>>, <<4, 4, 4, 5>>, 1, <<0, 0, 0, 0>>, 4, 10, <<"a">>),
     RatedSurvey(<<5, 5, 5, 5>>, <<1, 2, 3, 4>>, 5, <<1, 1, 1, 2>>, 3, 8, <<>>),
     RatedSurvey(<<1, 0, 0, 0>>, <<5, 5, 5, 4>>, 2, <<5, 4, 3, 2>>, 5, 7, <<"b">>),
     RatedSurvey(<<3, 3, 2, 2>>, <<0, 0, 0, 1>>, 4, <<2, 2, 2, 2>>, 1, 6, <<>>),
     ZeroSurvey,
     RatedSurvey(<<2, 2, 2, 2>>, <<3, 3, 3, 3>>, 3, <<4, 4, 4, 4>>, 2, 0 - 1, <<>>)}

\* the number of Surveys given to NewReport
MaxReportSurveys == 5

InitReport ==
    /\ surveys \in UNION {[1..n -> SampleSurveys] : n \in 0..MaxReportSurveys}
    /\ input = <<>>
    /\ pc = "loop"
    /\ lineNo = 0
    /\ scanErr = "nil"
    /\ buf = OpenObject
    /\ err = NilError
    /\ surveyBytes = <<>>
    /\ dec = NewDecoder
    /\ diag = <<>>
    /\ tally = ZeroTally
    /\ out = <<>>

NextReport == PrintReport

SpecReport == InitReport /\ [][NextReport]_vars

-----------------------------------------------------------------------------
(* The vocabulary of the properties, stated on the input text itself.      *)

HasEq(line) == \E i \in 1..Len(line) : line[i] = "="

FirstEq(line) ==
    CHOOSE i \in 1..Len(line) :
        line[i] = "=" /\ \A j \in 1..(i - 1) : line[j] # "="

\* the text before the first "=" and the whole text after it
KeyText(line) == SubSeq(line, 1, FirstEq(line) - 1)
RestText(line) == SubSeq(line, FirstEq(line) + 1, Len(line))

NotDash(c) == c # "-"
NoDashes(s) == SelectSeq(s, NotDash)

IsSepLine(line) == line = <<"=">>
IsDataLine(line) == HasEq(line) /\ ~IsSepLine(line)

AllValid(in) == \A i \in 1..Len(in) : HasEq(in[i])

\* every record of the input is followed by a separator line
AllTerminated(in) ==
    AllValid(in) /\ (Len(in) = 0 \/ IsSepLine(in[Len(in)]))

SepCount(in) == Cardinality({i \in 1..Len(in) : IsSepLine(in[i])})

\* the record that line i belongs to, and the data lines of record k
RecordOf(in, i) == 1 + Cardinality({j \in 1..(i - 1) : IsSepLine(in[j])})
RecordLines(in, k) ==
    {i \in 1..Len(in) : IsDataLine(in[i]) /\ RecordOf(in, i) = k}

\* N >= 1 records, each a run of data lines that ends with the survey_ver
\* field, each followed by a separator line
WellFormed(in) ==
    /\ Len(in) > 0
    /\ AllTerminated(in)
    /\ \A i \in 1..Len(in) :
          IsSepLine(in[i]) =>
              /\ i > 1
              /\ IsDataLine(in[i - 1])
              /\ KeyText(in[i - 1]) = SurveyVerText

\* a line free of the characters that JSON gives a meaning inside a string
IsPlain(line) == \A i \in 1..Len(line) : line[i] \notin {"\"", "\\"}

NamesField(key, fs) == \E f \in fs : JsonNames[f] = NoDashes(key)
FieldNamed(key) == CHOOSE f \in Fields : JsonNames[f] = NoDashes(key)

\* the key of line i occurs on no other line of its record
KeyOnce(in, i) ==
    \A j \in RecordLines(in, RecordOf(in, i)) :
        j # i => NoDashes(KeyText(in[j])) # NoDashes(KeyText(in[i]))

\* text that is a base-10 integer: an optional sign, then digits
IsNumeric(s) ==
    LET ds == IF Len(s) > 0 /\ s[1] \in {"+", "-"} THEN Tail(s) ELSE s
    IN  Len(ds) > 0 /\ \A i \in 1..Len(ds) : IsDigit(ds[i])

Finite(x) == x[2] > 0

-----------------------------------------------------------------------------
(* The properties.                                                         *)

\* C1: for an input of N >= 1 records, each a run of KEY=VALUE lines ending
\* with the survey_ver field and followed by a separator line, the decode
\* loop appends no more than N Surveys and the Report printed has
\* Responses = N.
C1_ResponsesIsRecordCount ==
    WellFormed(input) =>
        /\ Len(surveys) <= SepCount(input)
        /\ pc = "done" => out[1].Responses = SepCount(input)

\* C2: when TxtToJSON meets a line without "=", it returns an error at that
\* line: no later line is read, the bytes returned are those written for the
\* lines before it, and main prints no report.
C2_StopsAtInvalidLine ==
    \A i \in 1..Len(input) :
        (~HasEq(input[i]) /\ \A j \in 1..(i - 1) : HasEq(input[j])) =>
            /\ lineNo <= i
            /\ pc \in {"scan", "fatal"}
            /\ out = <<>> /\ surveys = <<>>
            /\ (pc = "scan") = (lineNo < i)
            /\ pc = "fatal" =>
                  /\ ~err.isNil
                  /\ surveyBytes = buf
                  /\ TrimmedBytes(surveyBytes)
                        = TxtToJSON(SubSeq(input, 1, i - 1)).bytes

C2_Witness ==
    /\ pc = "fatal"
    /\ lineNo > 1
    /\ lineNo < Len(input)
    /\ Len(buf) > Len(OpenObject)

\* C3: the error TxtToJSON returns for a line without "=" carries the text of
\* that line.
C3_ErrorNamesLine ==
    pc = "fatal" => Contains(err.text, input[lineNo])

\* C4: the four averages and the NPS of the Report printed are never the
\* undefined result of 0/0.
C4_NoUndefinedResult ==
    pc = "done" =>
        /\ Finite(out[1].NPS)
        /\ Finite(out[1].CurriculumAvg)
        /\ Finite(out[1].InstructorAvg)
        /\ Finite(out[1].EnvironmentAvg)
        /\ Finite(out[1].OverallAvg)

\* C5: an input whose last record is not followed by a separator line decodes
\* to the same Surveys as that input with the separator line added.
C5_UnterminatedLastRecord ==
    (/\ AllValid(input) /\ Len(input) > 0
     /\ ~IsSepLine(input[Len(input)])
     /\ pc \in {"loop", "done"}) =>
        LET want == DecodeLoop(TxtToJSON(Append(input, SeparatorLine)).bytes,
                               NewDecoder, <<>>).surveys
        IN  /\ Len(surveys) <= Len(want)
            /\ \A k \in 1..Len(surveys) : surveys[k] = want[k]
            /\ pc = "done" => surveys = want

\* The objects an input of separator-terminated records is framed into: one
\* "{\n" ... "}" per separator line, holding the text of the data lines of
\* that record, with "\n" between two objects; the record open at the end of
\* the input is not written.
RECURSIVE FramedRecords(_, _, _, _)
FramedRecords(in, i, cur, done) ==
    IF i > Len(in) THEN done
    ELSE IF IsSepLine(in[i])
    THEN FramedRecords(in, i + 1, <<>>,
             (IF done = <<>> THEN <<>> ELSE done \o <<"\n">>)
             \o <<"{", "\n">> \o cur \o <<"}">>)
    ELSE FramedRecords(in, i + 1, cur \o DataLineText(in[i]), done)

\* C6: an input of k >= 0 separator-terminated records yields exactly k
\* record objects and no phantom object for the record opened last; an empty
\* input yields empty bytes, a nil error and no Survey.
C6_NoPhantomRecord ==
    (AllTerminated(input) /\ pc \in {"loop", "done"}) =>
        /\ err.isNil
        /\ surveyBytes = FramedRecords(input, 1, <<>>, <<>>)
        /\ Len(surveyBytes) > 0 => surveyBytes[Len(surveyBytes)] = "}"
        /\ pc = "done" =>
              /\ Len(surveys) = SepCount(input)
              /\ out[1].Responses = SepCount(input)
        /\ input = <<>> => (surveyBytes = <<>> /\ surveys = <<>>)

C6_Witness ==
    /\ AllTerminated(input)
    /\ SepCount(input) = 2
    /\ \E i \in 1..Len(input) : IsDataLine(input[i])
    /\ pc = "done"

\* the input with the dashes removed from the key of every data line
DashFreeKeys(in) ==
    [i \in 1..Len(in) |->
        IF IsDataLine(in[i])
        THEN NoDashes(KeyText(in[i])) \o <<"=">> \o RestText(in[i])
        ELSE in[i]]

\* C7: a data line K=V and the data line K'=V, K' being K without its dashes,
\* give the same TxtToJSON output; the dashes of V stay in place.
C7_KeyNormalisation ==
    LET norm == DashFreeKeys(input)
    IN  (/\ AllValid(input)
         /\ \A i \in 1..Len(input) : IsSepLine(norm[i]) = IsSepLine(input[i])
         /\ pc \in {"loop", "done"}) =>
            /\ surveyBytes = TxtToJSON(norm).bytes
            /\ \A i \in 1..Len(input) :
                  (IsDataLine(input[i]) /\ ~HasEq(RestText(input[i]))) =>
                      Contains(buf, <<"\"", ":", " ", "\"">>
                                    \o RestText(input[i]) \o <<"\"">>)

C7_Witness ==
    /\ pc = "loop"
    /\ AllValid(input)
    /\ \A i \in 1..Len(input) :
          IsSepLine(DashFreeKeys(input)[i]) = IsSepLine(input[i])
    /\ \E i \in 1..Len(input) :
          IsDataLine(input[i]) /\ NoDashes(KeyText(input[i])) # KeyText(input[i])
    /\ \E i \in 1..Len(input) :
          IsDataLine(input[i]) /\ NoDashes(RestText(input[i])) # RestText(input[i])

\* C8: the value written for a data line is the whole text after its first
\* "=", further "=" characters included.
C8_SplitAtFirstEq ==
    \A i \in 1..lineNo :
        (pc # "fatal" /\ IsDataLine(input[i])) =>
            Contains(buf, <<" ", " ", "\"">> \o NoDashes(KeyText(input[i]))
                          \o <<"\"", ":", " ", "\"">> \o RestText(input[i])
                          \o <<"\"">>)

\* a data line that sets a string field to a text free of JSON's special
\* characters and of "="
IsStringLine(line) ==
    /\ IsDataLine(line)
    /\ IsPlain(line)
    /\ ~HasEq(RestText(line))
    /\ NamesField(KeyText(line), StringFields)

\* C9: a record followed by a separator line decodes to one Survey carrying
\* its fields whatever its last field is, and so do the records after it.
C9_AnyLastField ==
    (/\ AllTerminated(input)
     /\ \A i \in 1..Len(input) : IsSepLine(input[i]) \/ IsStringLine(input[i])
     /\ pc \in {"loop", "done"}) =>
        /\ Len(surveys) <= SepCount(input)
        /\ \A i \in 1..Len(input) :
              (/\ IsStringLine(input[i]) /\ KeyOnce(input, i)
               /\ RecordOf(input, i) <= Len(surveys)) =>
                  surveys[RecordOf(input, i)][FieldNamed(KeyText(input[i]))]
                      = RestText(input[i])
        /\ pc = "done" => Len(surveys) = SepCount(input)

\* a data line that gives a rated field a text that is no integer
IsNonNumericLine(line) ==
    /\ IsDataLine(line)
    /\ IsPlain(line)
    /\ ~HasEq(RestText(line))
    /\ NamesField(KeyText(line), IntFields)
    /\ ~IsNumeric(RestText(line))

\* C10: in a well-formed input, a record with a non-numeric value in a rated
\* field is still decoded: that field is 0, the string fields of the record
\* get their values, and every record is counted.
C10_NonNumericIsNonFatal ==
    (/\ WellFormed(input)
     /\ \A i \in 1..Len(input) :
           IsSepLine(input[i]) \/ IsStringLine(input[i])
           \/ (IsNonNumericLine(input[i]) /\ KeyOnce(input, i))
     /\ pc = "done") =>
        /\ Len(surveys) = SepCount(input)
        /\ out[1].Responses = SepCount(input)
        /\ \A i \in 1..Len(input) :
              /\ IsNonNumericLine(input[i]) =>
                    surveys[RecordOf(input, i)][FieldNamed(KeyText(input[i]))] = 0
              /\ (IsStringLine(input[i]) /\ KeyOnce(input, i)) =>
                    surveys[RecordOf(input, i)][FieldNamed(KeyText(input[i]))]
                        = RestText(input[i])

\* the Surveys of ss whose recommendation score is in lo..hi
ScoresIn(ss, lo, hi) ==
    Cardinality({k \in 1..Len(ss) : ss[k].Q410 >= lo /\ ss[k].Q410 <= hi})

ScoresFrom(ss, lo) == Cardinality({k \in 1..Len(ss) : ss[k].Q410 >= lo})
ScoresBelow(ss, hi) == Cardinality({k \in 1..Len(ss) : ss[k].Q410 < hi})

\* C11: NewReport counts a Survey as promoter if Q410 >= 9, passive if
\* 7 <= Q410 < 9, detractor if 0 <= Q410 < 7 (a score of 0, which an absent
\* answer decodes to, included), and in no bucket if Q410 < 0.
C11_Buckets ==
    pc = "done" =>
        /\ tally.promoters = ScoresFrom(surveys, 9)
        /\ tally.passives = ScoresIn(surveys, 7, 8)
        /\ tally.detractors = ScoresIn(surveys, 0, 6)
        /\ tally.promoters + tally.passives + tally.detractors
              = Len(surveys) - ScoresBelow(surveys, 0)
        /\ out[1].NPS
              = Float(100 * (ScoresFrom(surveys, 9) - ScoresIn(surveys, 0, 6)),
                      ScoresFrom(surveys, 0))

C11_Witness ==
    /\ pc = "done"
    /\ ScoresFrom(surveys, 9) > 0
    /\ ScoresIn(surveys, 7, 7) > 0
    /\ ScoresIn(surveys, 0, 0) > 0
    /\ ScoresBelow(surveys, 0) > 0

\* C12: for counts with p + s + d > 0 the NPS lies in [-100, 100]; it is 100
\* when all are promoters, -100 when all are detractors and 0 when all are
\* passives.
C12_NPSBounds ==
    (pc = "done" /\ tally.promoters + tally.passives + tally.detractors > 0) =>
        LET nps == out[1].NPS
            p == tally.promoters
            s == tally.passives
            d == tally.detractors
        IN  /\ nps = NPS(p, s, d)
            /\ nps[2] > 0
            /\ 0 - 100 * nps[2] <= nps[1] /\ nps[1] <= 100 * nps[2]
            /\ (s = 0 /\ d = 0) => nps = <<100, 1>>
            /\ (p = 0 /\ s = 0) => nps = <<0 - 100, 1>>
            /\ (p = 0 /\ d = 0) => nps = <<0, 1>>

C12_Witness ==
    /\ pc = "done"
    /\ tally.promoters = 0 /\ tally.detractors = 0 /\ tally.passives > 1

\* C13 as stated: the NPS denominator promoters + passives + detractors
\* equals Responses for every sequence of Surveys.
C13_DenominatorIsResponses ==
    pc = "done" =>
        tally.promoters + tally.passives + tally.detractors = out[1].Responses

\* C13, amended: the NPS denominator is the number of Surveys with Q410 >= 0;
\* it equals Responses, the divisor of the category sums, exactly when no
\* Survey has a negative Q410.
C13_DenominatorIsNonNegativeScores ==
    pc = "done" =>
        LET denominator == tally.promoters + tally.passives + tally.detractors
        IN  /\ out[1].Responses = Len(surveys)
            /\ denominator = ScoresFrom(surveys, 0)
            /\ (denominator = out[1].Responses) = (ScoresBelow(surveys, 0) = 0)

C13_Witness ==
    /\ pc = "done"
    /\ ScoresBelow(surveys, 0) > 0
    /\ ScoresFrom(surveys, 0) > 0

\* the sum over the Surveys of the answers to the questions qs
RECURSIVE AnswerSum(_, _, _)
AnswerSum(ss, k, qs) ==
    IF k = 0 THEN 0
    ELSE AnswerSum(ss, k - 1, qs)
         + ss[k][qs[1]] + ss[k][qs[2]] + ss[k][qs[3]] + ss[k][qs[4]]

RECURSIVE OverallSum(_, _)
OverallSum(ss, k) == IF k = 0 THEN 0 ELSE OverallSum(ss, k - 1) + ss[k].Q311

AveragedFields ==
    {"Q207", "Q208", "Q209", "Q210", "Q306", "Q307", "Q308", "Q320",
     "Q1002", "Q1003", "Q1004", "Q1005", "Q311"}

\* the Surveys with every field that is not averaged reset
OnlyAveraged(ss) ==
    [k \in 1..Len(ss) |->
        [f \in Fields |-> IF f \in AveragedFields THEN ss[k][f] ELSE ZeroSurvey[f]]]

\* C14: for n > 0 Surveys the four averages are the sums of the per-record
\* means of the four curriculum, four instructor (Q306, Q307, Q308, Q320) and
\* four environment answers, and of Q311, divided by n; no other field,
\* Q310 included, changes them.
C14_Averages ==
    (pc = "done" /\ Len(surveys) > 0) =>
        LET n == Len(surveys)
            bare == NewReport(OnlyAveraged(surveys))
        IN  /\ out[1].CurriculumAvg
                  = Float(AnswerSum(surveys, n, <<"Q207", "Q208", "Q209", "Q210">>), 4 * n)
            /\ out[1].InstructorAvg
                  = Float(AnswerSum(surveys, n, <<"Q306", "Q307", "Q308", "Q320">>), 4 * n)
            /\ out[1].EnvironmentAvg
                  = Float(AnswerSum(surveys, n, <<"Q1002", "Q1003", "Q1004", "Q1005">>), 4 * n)
            /\ out[1].OverallAvg = Float(OverallSum(surveys, n), n)
            /\ out[1].CurriculumAvg = bare.CurriculumAvg
            /\ out[1].InstructorAvg = bare.InstructorAvg
            /\ out[1].EnvironmentAvg = bare.EnvironmentAvg
            /\ out[1].OverallAvg = bare.OverallAvg

C14_Witness ==
    /\ pc = "done"
    /\ Len(surveys) = 3
    /\ \E k \in 1..Len(surveys) :
          surveys[k].Q310 # 0 /\ surveys[k].Q310 # surveys[k].Q320
    /\ \E k \in 1..Len(surveys) : surveys[k].Name # <<>>

\* the Report of the scenario: 3.75, 4.25, 0.00, 4.00 and 100.00
ScenarioReport ==
    [Responses |-> 5,
     NPS |-> <<100, 1>>,
     CurriculumAvg |-> <<15, 4>>,
     InstructorAvg |-> <<17, 4>>,
     EnvironmentAvg |-> <<0, 1>>,
     OverallAvg |-> <<4, 1>>]

\* C15: five identical records with curriculum answers 4,4,4,3, instructor
\* answers 4,4,4,5, environment answers 0,0,0,0, overall 4 and recommendation
\* 9 give Responses=5, CurriculumAvg=3.75, InstructorAvg=4.25,
\* EnvironmentAvg=0.00, OverallAvg=4.00 and NPS=100.00.
C15_Scenario ==
    /\ (pc = "done" /\ input = ScenarioInput) =>
          /\ surveys = [k \in 1..5 |-> [ScenarioSurvey EXCEPT !.SurveyVer = <<"1">>]]
          /\ out = <<ScenarioReport>>
    /\ (pc = "done" /\ Len(surveys) = 5
          /\ \A k \in 1..5 :
                /\ OnlyAveraged(surveys)[k] = OnlyAveraged(<<ScenarioSurvey>>)[1]
                /\ surveys[k].Q410 = 9) =>
          out = <<ScenarioReport>>

C15_Witness == pc = "done" /\ input = ScenarioInput /\ Len(surveys) = 5

\* a data line that sets a string field to any text without "="
IsTextLine(line) ==
    /\ IsDataLine(line)
    /\ ~HasEq(RestText(line))
    /\ NamesField(KeyText(line), StringFields)

\* C16: in a well-formed input of string-field lines KEY=VALUE, VALUE without
\* "=" and no KEY twice in a record, every decoded Survey carries each VALUE
\* of its record character for character, a double quote or a backslash in
\* it included, and the empty string in every string field its record does
\* not name.
C16_StringsPassThrough ==
    (/\ WellFormed(input)
     /\ \A i \in 1..Len(input) :
           IsSepLine(input[i]) \/ (IsTextLine(input[i]) /\ KeyOnce(input, i))
     /\ pc \in {"loop", "done"}) =>
        \A k \in 1..Len(surveys) :
            /\ \A i \in RecordLines(input, k) :
                  surveys[k][FieldNamed(KeyText(input[i]))] = RestText(input[i])
            /\ \A f \in StringFields :
                  (\A i \in RecordLines(input, k) : FieldNamed(KeyText(input[i])) # f)
                      => surveys[k][f] = <<>>

\* C17: the decode loop of main terminates on the bytes TxtToJSON returns
\* with a nil error. Stated on single iterations: a call of Decode made while
\* dec.More() is true never leaves the decoder as it was, so the loop is never
\* in a state that repeats itself.
C17_LoopAdvances ==
    (pc = "loop" /\ err.isNil /\ More(surveyBytes, dec)) =>
        Decode(surveyBytes, dec).dec # dec

\* C18: TxtToJSON returns a nil error only when the scanner has delivered
\* every line of the input without an error.
C18_NilErrorOnlyAfterWholeInput ==
    (pc \in {"loop", "done"} /\ err.isNil) =>
        (lineNo = Len(input) /\ scanErr = "nil")

====
